---------------------------- MODULE Spec2Model ----------------------------
(***************************************************************************)
(* A model of rust-mdo (src/src/lib.rs): the three families of monadic     *)
(* functions (option, result, iter) and the mdo! macro that rewrites a     *)
(* clause sequence into nested calls of bind / ret / mzero.                *)
(*                                                                         *)
(* Four machines share the module, one specification each:                 *)
(*   SpecOption  option::ret / option::mzero / option::bind                *)
(*   SpecResult  a chain of nested result::bind calls                      *)
(*   SpecIter    iter::bind, the FlatMap it returns and its consumer       *)
(*   SpecMdo     the expansion of mdo! rule by rule, then the evaluation   *)
(*               of the expression it produced                             *)
(***************************************************************************)
EXTENDS Integers, Sequences, FiniteSets, TLC

(***************************************************************************)
(* Bounds of the model.                                                    *)
(***************************************************************************)
\* payload values are 0..MaxVal
MaxVal == 2
\* the longest source sequence handed to iter::bind
MaxLen == 3
\* the longest clause sequence drawn from the clause pools
MaxClauses == 3
\* the number of nested result::bind calls in a chain
MaxChain == 2
\* error payloads are 1..MaxErr
MaxErr == 2

Vals == 0..MaxVal

(***************************************************************************)
(* Sequences.                                                              *)
(***************************************************************************)
SeqsUpTo(S, n) == UNION {[1..k -> S] : k \in 0..n}

Last(s) == s[Len(s)]

IsPrefix(s, t) == Len(s) <= Len(t) /\ SubSeq(t, 1, Len(s)) = s

\* range(lo, hi): lo, lo+1, ..., hi-1
Range(lo, hi) == [i \in 1..(IF hi > lo THEN hi - lo ELSE 0) |-> lo + i - 1]

(***************************************************************************)
(* Option<T> and Result<T, E>.                                             *)
(***************************************************************************)
None == [tag |-> "None"]
Some(v) == [tag |-> "Some", val |-> v]
Ok(v) == [tag |-> "Ok", val |-> v]
Err(e) == [tag |-> "Err", err |-> e]

OptionOf(S) == {None} \cup {Some(v) : v \in S}

\* the error payloads of the result chain
Errs == 1..MaxErr
ResultOf(S, E) == {Ok(v) : v \in S} \cup {Err(e) : e \in E}

(***************************************************************************)
(* A call of a monadic function is modelled by what it returns (val) and   *)
(* the arguments its continuation was invoked with, in order (calls).      *)
(* A continuation is a function from the value it receives to such a       *)
(* record: the continuation's own result and the invocations made inside.  *)
(***************************************************************************)
Ran(v, c) == [val |-> v, calls |-> c]
Pure(v) == Ran(v, <<>>)

(***************************************************************************)
(* mod option                                                              *)
(***************************************************************************)
\* a bind that invokes the continuation twice
OptionBindTwice(m, f) ==
    IF m.tag = "Some"
        THEN Ran(f[m.val].val, <<m.val>> \o f[m.val].calls \o <<m.val>> \o f[m.val].calls)
        ELSE Pure(None)

\* a bind that wraps f's result again instead of returning it
OptionBindKeep(m, f) ==
    IF m.tag = "Some"
        THEN Ran(m, <<m.val>> \o f[m.val].calls)
        ELSE Pure(None)

\* match m { Some(a) => f(a), None => None }
OptionBind(m, f) ==
    IF m.tag = "Some"
        THEN Ran(f[m.val].val, <<m.val>> \o f[m.val].calls)
        ELSE Pure(None)

\* Some(x)
OptionRet(x) == Some(x)

\* None
OptionMzero == None

(***************************************************************************)
(* mod result                                                              *)
(***************************************************************************)
\* a bind that replaces the error it propagates
ResultBindRewrap(m, f) ==
    IF m.tag = "Ok"
        THEN Ran(f[m.val].val, <<m.val>> \o f[m.val].calls)
        ELSE Pure(Err(1))

\* match m { Ok(a) => f(a), Err(err) => Err(err) }
ResultBind(m, f) ==
    IF m.tag = "Ok"
        THEN Ran(f[m.val].val, <<m.val>> \o f[m.val].calls)
        ELSE Pure(Err(m.err))

\* Ok(x)
ResultRet(x) == Ok(x)

(***************************************************************************)
(* mod iter                                                                *)
(*                                                                         *)
(* bind is m.flat_map(f): it returns a FlatMap holding the source iterator *)
(* and no front iterator.  FlatMap::next yields the next element of the    *)
(* front iterator if there is one; otherwise it takes the next element a   *)
(* of the source, makes f(a) the front iterator and tries again; it        *)
(* returns None once the source is exhausted.  An iterator is modelled by  *)
(* the sequence of elements it has yet to yield.                           *)
(***************************************************************************)
\* a bind that collects every sub-sequence when it is called
IterBindEager(m, f) ==
    LET RECURSIVE All(_)
        All(s) == IF s = <<>> THEN Pure(<<>>)
                  ELSE LET r == All(Tail(s))
                       IN  Ran(f[Head(s)].val \o r.val,
                               <<Head(s)>> \o f[Head(s)].calls \o r.calls)
        a == All(m)
    IN  Ran([iter |-> <<>>, front |-> Some(a.val)], a.calls)

\* a bind that walks its source from the back
IterBindReversed(m, f) ==
    Ran([iter |-> [i \in DOMAIN m |-> m[Len(m) + 1 - i]], front |-> None], <<>>)

\* m.flat_map(f)
IterBind(m, f) == Ran([iter |-> m, front |-> None], <<>>)

\* a next that gives up at the first empty sub-sequence
FlatMapNextNoLoop(st, f) ==
    IF st.front.tag = "Some" /\ st.front.val # <<>>
        THEN [item |-> Some(Head(st.front.val)),
              st |-> [st EXCEPT !.front = Some(Tail(st.front.val))],
              calls |-> <<>>]
    ELSE IF st.iter = <<>>
        THEN [item |-> None, st |-> st, calls |-> <<>>]
    ELSE LET a == Head(st.iter)
             sub == f[a].val
         IN  [item |-> IF sub = <<>> THEN None ELSE Some(Head(sub)),
              st |-> [iter |-> Tail(st.iter),
                      front |-> Some(IF sub = <<>> THEN sub ELSE Tail(sub))],
              calls |-> <<a>> \o f[a].calls]

\* FlatMap::next
RECURSIVE FlatMapNext(_, _)
FlatMapNext(st, f) ==
    IF st.front.tag = "Some" /\ st.front.val # <<>>
        THEN [item |-> Some(Head(st.front.val)),
              st |-> [st EXCEPT !.front = Some(Tail(st.front.val))],
              calls |-> <<>>]
    ELSE IF st.iter = <<>>
        THEN [item |-> None, st |-> st, calls |-> <<>>]
    ELSE LET a == Head(st.iter)
             r == FlatMapNext([iter |-> Tail(st.iter), front |-> Some(f[a].val)], f)
         IN  [item |-> r.item, st |-> r.st,
              calls |-> <<a>> \o f[a].calls \o r.calls]

\* collect(): next until None
RECURSIVE Collect(_, _)
Collect(st, f) ==
    LET r == FlatMapNext(st, f)
    IN  IF r.item = None THEN Ran(<<>>, r.calls)
        ELSE LET rest == Collect(r.st, f)
             IN  Ran(<<r.item.val>> \o rest.val, r.calls \o rest.calls)

\* Some(x).into_iter()
IterRet(x) == <<x>>

\* None.into_iter()
IterMzero == <<>>

(***************************************************************************)
(* Expressions.  The macro treats an expression fragment as one token; the *)
(* forms below are the ones the tests and the doc example use, and the     *)
(* forms the macro itself emits (block, closure, if, calls of bind / ret / *)
(* mzero, the pending mdo! invocation).                                    *)
(***************************************************************************)
Lit(n) == [op |-> "lit", n |-> n]
Var(v) == [op |-> "var", v |-> v]
Bin(o, l, r) == [op |-> o, l |-> l, r |-> r]
Tuple(es) == [op |-> "tuple", es |-> es]
Unit == [op |-> "unit"]
Call(fn, args) == [op |-> "call", fn |-> fn, args |-> args]
If(c, t, f) == [op |-> "if", c |-> c, t |-> t, f |-> f]
\* move |p| body   and   move |p: ty| body
Closure(p, ty, body) == [op |-> "closure", p |-> p, ty |-> ty, body |-> body]
\* { let p = e; body }   and   { let p: ty = e; body }
Block(p, ty, e, body) == [op |-> "block", p |-> p, ty |-> ty, e |-> e, body |-> body]
\* mdo! { toks }
Mdo(toks) == [op |-> "mdo", toks |-> toks]

\* patterns: an identifier, or `_`
Id(name) == [k |-> "ident", name |-> name]
Wild == [k |-> "wild", name |-> "_"]
\* no type annotation, and the type annotations the tests write
NoTy == "-"

(***************************************************************************)
(* Tokens.  `let` is a keyword; ign, when and ret are plain identifiers,   *)
(* like the names of variables and types.  A pattern that is not a single  *)
(* identifier and an expression that is not a single identifier are one    *)
(* token each, as the fragment parsers of macro_rules take them.           *)
(***************************************************************************)
TLet == [t |-> "let"]
TEq == [t |-> "="]
TColon == [t |-> ":"]
TArrow == [t |-> "<-"]
TSemi == [t |-> ";"]
TIdent(name) == [t |-> "ident", name |-> name]
TPat(p) == [t |-> "pat", p |-> p]
TExpr(e) == [t |-> "expr", e |-> e]

\* the fragment specifiers of the macro's matchers
IsPath(tok) == tok.t = "ident"
IsPat(tok) == tok.t \in {"ident", "pat"}
IsTy(tok) == tok.t = "ident"
IsExpr(tok) == tok.t \in {"ident", "expr"}
IsWord(tok, w) == tok.t = "ident" /\ tok.name = w

\* what a matched fragment stands for
PatOf(tok) == IF tok.t = "ident" THEN Id(tok.name) ELSE tok.p
ExprOf(tok) == IF tok.t = "ident" THEN Var(tok.name) ELSE tok.e

Rest(ts, n) == SubSeq(ts, n + 1, Len(ts))

(***************************************************************************)
(* macro_rules! mdo: the matcher and the transcriber of each rule, in the  *)
(* order of the source.                                                    *)
(***************************************************************************)
\* let $p: path = $e: expr ; $( $t: tt )*
MatchLet(ts) ==
    /\ Len(ts) >= 5
    /\ ts[1] = TLet /\ IsPath(ts[2]) /\ ts[3] = TEq /\ IsExpr(ts[4]) /\ ts[5] = TSemi
\* a let whose name the remainder does not see
ExpandLetUnbound(ts) == Block(Wild, NoTy, ExprOf(ts[4]), Mdo(Rest(ts, 5)))
\* { let $p = $e ; mdo! { $( $t )* } }
ExpandLet(ts) == Block(PatOf(ts[2]), NoTy, ExprOf(ts[4]), Mdo(Rest(ts, 5)))

\* let $p: path : $ty: ty = $e: expr ; $( $t: tt )*
MatchLetTy(ts) ==
    /\ Len(ts) >= 7
    /\ ts[1] = TLet /\ IsPath(ts[2]) /\ ts[3] = TColon /\ IsTy(ts[4])
    /\ ts[5] = TEq /\ IsExpr(ts[6]) /\ ts[7] = TSemi
\* { let $p: $ty = $e ; mdo! { $( $t )* } }
ExpandLetTy(ts) == Block(PatOf(ts[2]), ts[4].name, ExprOf(ts[6]), Mdo(Rest(ts, 7)))

\* $p: pat <- $e: expr ; $( $t: tt )*
MatchBind(ts) ==
    /\ Len(ts) >= 4
    /\ IsPat(ts[1]) /\ ts[2] = TArrow /\ IsExpr(ts[3]) /\ ts[4] = TSemi
\* bind($e, move |$p| mdo! { $( $t )* } )
ExpandBind(ts) ==
    Call("bind", <<ExprOf(ts[3]), Closure(PatOf(ts[1]), NoTy, Mdo(Rest(ts, 4)))>>)

\* $p: pat : $ty: ty <- $e: expr ; $( $t: tt )*
MatchBindTy(ts) ==
    /\ Len(ts) >= 6
    /\ IsPat(ts[1]) /\ ts[2] = TColon /\ IsTy(ts[3])
    /\ ts[4] = TArrow /\ IsExpr(ts[5]) /\ ts[6] = TSemi
\* bind($e, move |$p : $ty| mdo! { $( $t )* } )
ExpandBindTy(ts) ==
    Call("bind", <<ExprOf(ts[5]), Closure(PatOf(ts[1]), ts[3].name, Mdo(Rest(ts, 6)))>>)

\* ign $e: expr ; $( $t: tt )*
MatchIgn(ts) ==
    /\ Len(ts) >= 3
    /\ IsWord(ts[1], "ign") /\ IsExpr(ts[2]) /\ ts[3] = TSemi
\* an ign that drops its expression
ExpandIgnSkip(ts) == Mdo(Rest(ts, 3))
\* bind($e, move |_| mdo! { $( $t )* })
ExpandIgn(ts) ==
    Call("bind", <<ExprOf(ts[2]), Closure(Wild, NoTy, Mdo(Rest(ts, 3)))>>)

\* when $e: expr ; $( $t: tt )*
MatchWhen(ts) ==
    /\ Len(ts) >= 3
    /\ IsWord(ts[1], "when") /\ IsExpr(ts[2]) /\ ts[3] = TSemi
\* a guard with its branches exchanged
ExpandWhenSwapped(ts) ==
    Call("bind", <<If(ExprOf(ts[2]), Call("mzero", <<>>), Call("ret", <<Unit>>)),
                   Closure(Wild, NoTy, Mdo(Rest(ts, 3)))>>)
\* bind(if $e { ret(()) } else { mzero() }, move |_| mdo! { $( $t )* })
ExpandWhen(ts) ==
    Call("bind", <<If(ExprOf(ts[2]), Call("ret", <<Unit>>), Call("mzero", <<>>)),
                   Closure(Wild, NoTy, Mdo(Rest(ts, 3)))>>)

\* ret $f: expr
MatchRet(ts) ==
    /\ Len(ts) = 2
    /\ IsWord(ts[1], "ret") /\ IsExpr(ts[2])
\* $f
ExpandRet(ts) == ExprOf(ts[2])

\* the first rule whose matcher accepts the tokens, 0 if none does
RuleFor(ts) ==
    IF MatchLet(ts) THEN 1
    ELSE IF MatchLetTy(ts) THEN 2
    ELSE IF MatchBind(ts) THEN 3
    ELSE IF MatchBindTy(ts) THEN 4
    ELSE IF MatchIgn(ts) THEN 5
    ELSE IF MatchWhen(ts) THEN 6
    ELSE IF MatchRet(ts) THEN 7
    ELSE 0

\* the tokens of the mdo! invocation an expression still holds; the macro
\* puts it in tail position: a block's body or a bind's closure body
RECURSIVE PendingToks(_)
PendingToks(e) ==
    CASE e.op = "mdo" -> e.toks
      [] e.op = "block" -> PendingToks(e.body)
      [] e.op = "call" /\ e.fn = "bind" -> PendingToks(e.args[2].body)

RECURSIVE HasPending(_)
HasPending(e) ==
    CASE e.op = "mdo" -> TRUE
      [] e.op = "block" -> HasPending(e.body)
      [] e.op = "call" /\ e.fn = "bind" -> HasPending(e.args[2])
      [] e.op = "closure" -> HasPending(e.body)
      [] OTHER -> FALSE

\* the expression with its pending invocation replaced by its expansion
RECURSIVE Splice(_, _)
Splice(e, new) ==
    CASE e.op = "mdo" -> new
      [] e.op = "block" -> [e EXCEPT !.body = Splice(e.body, new)]
      [] e.op = "call" /\ e.fn = "bind" ->
            [e EXCEPT !.args[2].body = Splice(e.args[2].body, new)]

\* the transcription of rule n
Transcribe(n, ts) ==
    CASE n = 1 -> ExpandLet(ts)
      [] n = 2 -> ExpandLetTy(ts)
      [] n = 3 -> ExpandBind(ts)
      [] n = 4 -> ExpandBindTy(ts)
      [] n = 5 -> ExpandIgn(ts)
      [] n = 6 -> ExpandWhen(ts)
      [] n = 7 -> ExpandRet(ts)

NoExpr == [op |-> "none"]

\* the expression once every invocation is expanded; none if a rule fails
RECURSIVE ExpandAll(_)
ExpandAll(e) ==
    IF ~HasPending(e) THEN e
    ELSE IF RuleFor(PendingToks(e)) = 0 THEN NoExpr
    ELSE ExpandAll(Splice(e, Transcribe(RuleFor(PendingToks(e)), PendingToks(e))))

(***************************************************************************)
(* Evaluation of an expanded expression, with one family's bind, ret and   *)
(* mzero in scope (the `use` of the call site).                            *)
(***************************************************************************)
Ext(env, name, v) ==
    [n \in DOMAIN env \cup {name} |-> IF n = name THEN v ELSE env[n]]

\* let p = v, and the parameter p of a closure called with v
BindPat(env, p, v) == IF p.k = "ident" THEN Ext(env, p.name, v) ELSE env

\* the values of a block's expressions: int, bool, tuple, and () the empty
\* tuple
IntV(n) == [k |-> "int", n |-> n]
BoolV(b) == [k |-> "bool", b |-> b]
TupleV(es) == [k |-> "tuple", es |-> es]
UnitV == TupleV(<<>>)

\* expressions of plain values
RECURSIVE EvalV(_, _)
EvalV(e, env) ==
    CASE e.op = "lit" -> IntV(e.n)
      [] e.op = "var" -> env[e.v]
      [] e.op = "+" -> IntV(EvalV(e.l, env).n + EvalV(e.r, env).n)
      [] e.op = "*" -> IntV(EvalV(e.l, env).n * EvalV(e.r, env).n)
      [] e.op = "%" -> IntV(EvalV(e.l, env).n % EvalV(e.r, env).n)
      [] e.op = "==" -> BoolV(EvalV(e.l, env) = EvalV(e.r, env))
      [] e.op = "!=" -> BoolV(EvalV(e.l, env) # EvalV(e.r, env))
      [] e.op = "tuple" -> TupleV([i \in DOMAIN e.es |-> EvalV(e.es[i], env)])
      [] e.op = "unit" -> UnitV

\* range(lo, hi) over int values
RangeV(lo, hi) == [i \in DOMAIN Range(lo.n, hi.n) |-> IntV(Range(lo.n, hi.n)[i])]

\* the values a continuation can be called with by bind(m, ..)
ElemsOf(m, fam) ==
    IF fam = "option" THEN (IF m.tag = "Some" THEN {m.val} ELSE {})
    ELSE {m[i] : i \in DOMAIN m}

\* expressions of the family's type; an iterator is evaluated to the
\* sequence collect() gets from it
RECURSIVE EvalM(_, _, _)
EvalM(e, env, fam) ==
    CASE e.op = "call" /\ e.fn = "bind" ->
            LET m == EvalM(e.args[1], env, fam)
                c == e.args[2]
                f == [a \in ElemsOf(m.val, fam) |->
                         EvalM(c.body, BindPat(env, c.p, a), fam)]
            IN  IF fam = "option"
                    THEN LET r == OptionBind(m.val, f)
                         IN  Ran(r.val, m.calls \o r.calls)
                    ELSE LET b == IterBind(m.val, f)
                             r == Collect(b.val, f)
                         IN  Ran(r.val, m.calls \o b.calls \o r.calls)
      [] e.op = "call" /\ e.fn = "ret" ->
            Pure(IF fam = "option" THEN OptionRet(EvalV(e.args[1], env))
                 ELSE IterRet(EvalV(e.args[1], env)))
      [] e.op = "call" /\ e.fn = "mzero" ->
            Pure(IF fam = "option" THEN OptionMzero ELSE IterMzero)
      [] e.op = "call" /\ e.fn = "range" ->
            Pure(RangeV(EvalV(e.args[1], env), EvalV(e.args[2], env)))
      [] e.op = "block" ->
            EvalM(e.body, BindPat(env, e.p, EvalV(e.e, env)), fam)
      [] e.op = "if" ->
            IF EvalV(e.c, env).b THEN EvalM(e.t, env, fam) ELSE EvalM(e.f, env, fam)

(***************************************************************************)
(* Clause sequences as they are written in the block of an mdo!            *)
(* invocation, and their tokens.                                           *)
(***************************************************************************)
CLet(p, ty, e) == [k |-> "let", p |-> p, ty |-> ty, e |-> e]
CBind(p, ty, e) == [k |-> "bind", p |-> p, ty |-> ty, e |-> e]
CIgn(e) == [k |-> "ign", p |-> Wild, ty |-> NoTy, e |-> e]
CWhen(e) == [k |-> "when", p |-> Wild, ty |-> NoTy, e |-> e]
CRet(e) == [k |-> "ret", p |-> Wild, ty |-> NoTy, e |-> e]
\* a bare expression, which is none of the clauses of the notation
CRaw(e) == [k |-> "raw", p |-> Wild, ty |-> NoTy, e |-> e]

PatTok(p) == IF p.k = "ident" THEN TIdent(p.name) ELSE TPat(p)
ExprTok(e) == IF e.op = "var" THEN TIdent(e.v) ELSE TExpr(e)
TyToks(ty) == IF ty = NoTy THEN <<>> ELSE <<TColon, TIdent(ty)>>

ClauseToks(c) ==
    CASE c.k = "let" -> <<TLet, PatTok(c.p)>> \o TyToks(c.ty) \o <<TEq, ExprTok(c.e)>>
      [] c.k = "bind" -> <<PatTok(c.p)>> \o TyToks(c.ty) \o <<TArrow, ExprTok(c.e)>>
      [] c.k = "ign" -> <<TIdent("ign"), ExprTok(c.e)>>
      [] c.k = "when" -> <<TIdent("when"), ExprTok(c.e)>>
      [] c.k = "ret" -> <<TIdent("ret"), ExprTok(c.e)>>
      [] c.k = "raw" -> <<ExprTok(c.e)>>

\* the clauses separated by `;`, with a `;` after the last one if semi
RECURSIVE ProgToks(_, _)
ProgToks(cs, semi) ==
    IF cs = <<>> THEN <<>>
    ELSE IF Len(cs) = 1 THEN ClauseToks(cs[1]) \o (IF semi THEN <<TSemi>> ELSE <<>>)
    ELSE ClauseToks(cs[1]) \o <<TSemi>> \o ProgToks(Tail(cs), semi)

(***************************************************************************)
(* State.                                                                  *)
(***************************************************************************)
VARIABLES
    \* option machine
    opc,      \* "off" | "start" | "ready" | "done"
    ox,       \* the value handed to ret
    ofn,      \* the continuation f: Vals -> Option
    osrc,     \* how m was made: "arg" | "ret" | "mzero"
    om,       \* the option m handed to bind
    ores,     \* what bind returned and the invocations of f
    \* result machine
    rpc,      \* "off" | "start" | "done"
    rm,       \* the result m handed to the outermost bind
    rgs,      \* the continuations of the chain, outermost first
    rres,     \* what the chain returned and the invocations made
    \* iter machine
    ipc,      \* "off" | "start" | "iterating" | "done"
    im,       \* the source sequence m handed to bind
    ifn,      \* the continuation f: Vals -> sub-sequence
    ist,      \* the FlatMap bind returned: source and front iterator
    iout,     \* the elements delivered to the consumer so far
    icalls,   \* the arguments f was invoked with so far
    \* mdo machine
    mpc,      \* "off" | "expanding" | "expanded" | "error" | "run"
    prog,     \* the block as written: family in scope, clauses, final `;`
    mexpr,    \* the expression under expansion, then the expanded expression
    mdepth,   \* the number of mdo! invocations expanded
    mval      \* the value of the expanded expression and the invocations

optVars == <<opc, ox, ofn, osrc, om, ores>>
resVars == <<rpc, rm, rgs, rres>>
iterVars == <<ipc, im, ifn, ist, iout, icalls>>
mdoVars == <<mpc, prog, mexpr, mdepth, mval>>
vars == <<optVars, resVars, iterVars, mdoVars>>

Pending == Ran([tag |-> "Pending"], <<>>)

OptionOff == opc = "off" /\ ox = 0 /\ ofn = <<>> /\ osrc = "none" /\ om = None /\ ores = Pending
IterOff ==
    /\ ipc = "off" /\ im = <<>> /\ ifn = <<>> /\ iout = <<>> /\ icalls = <<>>
    /\ ist = [iter |-> <<>>, front |-> None]
MdoOff ==
    /\ mpc = "off" /\ prog = [fam |-> "none", cs |-> <<>>, semi |-> FALSE]
    /\ mexpr = NoExpr /\ mdepth = 0 /\ mval = Pending
ResultOff == rpc = "off" /\ rm = Ok(0) /\ rgs = <<>> /\ rres = Pending

(***************************************************************************)
(* The option machine: m is made by ret(x), by mzero() or given by the     *)
(* caller, then bind(m, f) is called.                                      *)
(***************************************************************************)
OptionFns == [Vals -> OptionOf(Vals)]

\* the continuation |v| ret(v)
OptionRetFn == [v \in Vals |-> OptionRet(v)]

InitOption ==
    /\ opc = "start"
    /\ ox \in Vals
    /\ ofn \in OptionFns
    /\ osrc = "none"
    /\ om = None
    /\ ores = Pending
    /\ ResultOff
    /\ IterOff
    /\ MdoOff

OptionGiven ==
    /\ opc = "start"
    /\ \E m \in OptionOf(Vals) : om' = m
    /\ osrc' = "arg"
    /\ opc' = "ready"
    /\ UNCHANGED <<ox, ofn, ores, resVars, iterVars, mdoVars>>

OptionCallRet ==
    /\ opc = "start"
    /\ om' = OptionRet(ox)
    /\ osrc' = "ret"
    /\ opc' = "ready"
    /\ UNCHANGED <<ox, ofn, ores, resVars, iterVars, mdoVars>>

OptionCallMzero ==
    /\ opc = "start"
    /\ om' = OptionMzero
    /\ osrc' = "mzero"
    /\ opc' = "ready"
    /\ UNCHANGED <<ox, ofn, ores, resVars, iterVars, mdoVars>>

OptionCallBind ==
    /\ opc = "ready"
    /\ ores' = OptionBind(om, [v \in Vals |-> Pure(ofn[v])])
    /\ opc' = "done"
    /\ UNCHANGED <<ox, ofn, osrc, om, resVars, iterVars, mdoVars>>

NextOption == OptionGiven \/ OptionCallRet \/ OptionCallMzero \/ OptionCallBind

SpecOption == InitOption /\ [][NextOption]_vars

(***************************************************************************)
(* The result machine: a chain of nested binds,                            *)
(*   bind(m, |a| bind(g1(a), |b| ... gn(z)))                               *)
(* with n = Len(rgs) binds; the continuation of the innermost bind         *)
(* returns gn.                                                             *)
(***************************************************************************)
ResultInc == [v \in Vals |-> Ok((v + 1) % (MaxVal + 1))]
ResultFail(e) == [v \in Vals |-> Err(e)]
ResultFailOn(t, e) == [v \in Vals |-> IF v = t THEN Err(e) ELSE Ok(v)]

ResultFns ==
    {ResultInc, [v \in Vals |-> ResultRet(v)]}
        \cup {ResultFail(e) : e \in Errs}
        \cup {ResultFailOn(t, e) : t \in Vals, e \in Errs}

RECURSIVE ResultChain(_, _, _)
ResultChain(m, gs, k) ==
    ResultBind(m, [a \in Vals |->
                     IF k = Len(gs) THEN Pure(gs[k][a])
                     ELSE ResultChain(gs[k][a], gs, k + 1)])

InitResult ==
    /\ rpc = "start"
    /\ rm \in ResultOf(Vals, Errs)
    /\ rgs \in SeqsUpTo(ResultFns, MaxChain) \ {<<>>}
    /\ rres = Pending
    /\ OptionOff
    /\ IterOff
    /\ MdoOff

ResultRun ==
    /\ rpc = "start"
    /\ rres' = ResultChain(rm, rgs, 1)
    /\ rpc' = "done"
    /\ UNCHANGED <<rm, rgs, optVars, iterVars, mdoVars>>

NextResult == ResultRun

SpecResult == InitResult /\ [][NextResult]_vars

(***************************************************************************)
(* The iter machine: bind(m, f) is called, then a consumer asks the        *)
(* FlatMap for its elements one at a time and may stop at any point.       *)
(***************************************************************************)
IterFns ==
    {[x \in Vals |-> Range(x, hi)] : hi \in 0..(MaxVal + 1)}
        \cup {[x \in Vals |-> Range(0, x)],
              [x \in Vals |-> IterRet(x)],
              [x \in Vals |-> IterMzero],
              [x \in Vals |-> <<x, x>>],
              [x \in Vals |-> IF x % 2 = 0 THEN IterRet(x) ELSE IterMzero]}

InitIter ==
    /\ ipc = "start"
    /\ im \in SeqsUpTo(Vals, MaxLen)
    /\ ifn \in IterFns
    /\ ist = [iter |-> im, front |-> None]
    /\ iout = <<>>
    /\ icalls = <<>>
    /\ OptionOff
    /\ ResultOff
    /\ MdoOff

IterCallBind ==
    /\ ipc = "start"
    /\ LET r == IterBind(im, [v \in Vals |-> Pure(ifn[v])])
       IN  ist' = r.val /\ icalls' = icalls \o r.calls
    /\ ipc' = "iterating"
    /\ UNCHANGED <<im, ifn, iout, optVars, resVars, mdoVars>>

IterNext ==
    /\ ipc = "iterating"
    /\ LET r == FlatMapNext(ist, [v \in Vals |-> Pure(ifn[v])])
       IN  /\ ist' = r.st
           /\ icalls' = icalls \o r.calls
           /\ iout' = IF r.item = None THEN iout ELSE Append(iout, r.item.val)
           /\ ipc' = IF r.item = None THEN "done" ELSE "iterating"
    /\ UNCHANGED <<im, ifn, optVars, resVars, mdoVars>>

NextIter == IterCallBind \/ IterNext

SpecIter == InitIter /\ [][NextIter]_vars

(***************************************************************************)
(* The mdo machine: a block is written, mdo! is expanded one invocation at *)
(* a time until no invocation is left or no rule matches, and the expanded *)
(* expression is evaluated with the family's functions in scope.           *)
(***************************************************************************)
Rng(lo, hi) == Call("range", <<lo, hi>>)
Ret1(e) == Call("ret", <<e>>)
Program(fam, cs) == [fam |-> fam, cs |-> cs, semi |-> FALSE]

\* the blocks of the tests, of the doc example and of examples/iter_mdo.rs
OptionMdo1 == Program("option", <<CRet(Ret1(Lit(5)))>>)
OptionMdo2 ==
    Program("option", <<CBind(Id("x"), NoTy, Ret1(Lit(5))),
                        CRet(Ret1(Bin("+", Var("x"), Lit(1))))>>)
OptionMdo3 ==
    Program("option", <<CBind(Id("x"), NoTy, Ret1(Lit(5))),
                        CBind(Id("x"), NoTy, Ret1(Bin("+", Var("x"), Lit(5)))),
                        CRet(Ret1(Bin("*", Var("x"), Lit(2))))>>)
OptionMdo4 ==
    Program("option", <<CBind(Id("x"), NoTy, Ret1(Lit(5))),
                        CWhen(Bin("==", Var("x"), Lit(0))),
                        CRet(Ret1(Bin("*", Var("x"), Lit(2))))>>)
IterMdo1 ==
    Program("iter", <<CBind(Id("x"), NoTy, Rng(Lit(0), Lit(3))),
                      CRet(Rng(Var("x"), Lit(3)))>>)
IterMdo2 ==
    Program("iter", <<CBind(Id("x"), NoTy, Rng(Lit(0), Lit(3))),
                      CBind(Id("y"), NoTy, Rng(Lit(0), Lit(3))),
                      CRet(Ret1(Bin("+", Var("x"), Var("y"))))>>)
SumOfSquares(a, b) == Bin("+", Bin("*", Var(a), Var(a)), Bin("*", Var(b), Var(b)))
IsTriple == Bin("==", SumOfSquares("x", "y"), Bin("*", Var("z"), Var("z")))
Triple == Tuple(<<Var("x"), Var("y"), Var("z")>>)
IterMdo3 ==
    Program("iter", <<CBind(Id("z"), NoTy, Rng(Lit(1), Lit(11))),
                      CBind(Id("y"), NoTy, Rng(Lit(1), Var("z"))),
                      CBind(Id("x"), NoTy, Rng(Lit(1), Bin("+", Var("y"), Lit(1)))),
                      CLet(Id("test"), NoTy, IsTriple),
                      CWhen(Var("test")),
                      CLet(Id("res"), NoTy, Triple),
                      CRet(Ret1(Var("res")))>>)
IterIgnore ==
    Program("iter", <<CBind(Id("x"), "int", Rng(Lit(0), Lit(5))),
                      CIgn(Rng(Lit(0), Lit(2))),
                      CRet(Ret1(Var("x")))>>)
RetTrick ==
    Program("iter", <<CBind(Id("ret"), NoTy, Rng(Lit(0), Lit(5))),
                      CRet(Rng(Lit(0), Var("ret")))>>)
WhenTrick ==
    Program("iter", <<CBind(Id("when"), NoTy, Rng(Lit(0), Lit(5))),
                      CWhen(Bin("!=", Var("when"), Lit(3))),
                      CRet(Ret1(Var("when")))>>)
IgnTrick ==
    Program("iter", <<CBind(Id("ign"), "int", Rng(Lit(0), Lit(5))),
                      CIgn(Rng(Lit(0), Lit(0))),
                      CRet(Ret1(Var("ign")))>>)
IgnUselessTypeAnnotation ==
    Program("iter", <<CBind(Id("i"), "int", Rng(Lit(0), Lit(5))),
                      CBind(Wild, NoTy, Rng(Lit(0), Lit(0))),
                      CRet(Ret1(Var("i")))>>)
MdoDocExample ==
    Program("iter", <<CBind(Id("x"), NoTy, Rng(Lit(0), Lit(5))),
                      CIgn(Rng(Lit(0), Lit(2))),
                      CWhen(Bin("==", Bin("%", Var("x"), Lit(2)), Lit(0))),
                      CLet(Id("y"), NoTy, Bin("+", Var("x"), Lit(5))),
                      CRet(Ret1(Bin("+", Var("y"), Lit(5))))>>)
ExampleIterMdo ==
    Program("iter", <<CBind(Id("z"), NoTy, Rng(Lit(1), Lit(11))),
                      CBind(Id("x"), NoTy, Rng(Lit(1), Var("z"))),
                      CBind(Id("y"), NoTy, Rng(Var("x"), Var("z"))),
                      CWhen(IsTriple),
                      CRet(Ret1(Triple))>>)

TestPrograms ==
    {OptionMdo1, OptionMdo2, OptionMdo3, OptionMdo4, IterMdo1, IterMdo2, IterMdo3,
     IterIgnore, RetTrick, WhenTrick, IgnTrick, IgnUselessTypeAnnotation,
     MdoDocExample, ExampleIterMdo}

\* the variables of the scope the pool's blocks are written in
Env0 == [x |-> IntV(1), y |-> IntV(2), t |-> BoolV(TRUE)]

\* clauses over x, y and t that differ in the family's expressions only
CommonPool ==
    {CWhen(Bin("!=", Var("x"), Lit(1))),
     CWhen(Var("t")),
     CLet(Id("y"), NoTy, Bin("+", Var("x"), Lit(1))),
     CLet(Id("t"), "bool", Bin("==", Bin("%", Var("x"), Lit(2)), Lit(0))),
     CLet(Wild, NoTy, Var("x")),
     CRet(Ret1(Bin("+", Var("x"), Var("y")))),
     CRaw(Bin("+", Var("x"), Lit(1)))}

OptionPool ==
    CommonPool \cup
    {CBind(Id("x"), NoTy, Ret1(Lit(2))),
     CBind(Id("y"), "int", Ret1(Bin("+", Var("x"), Lit(1)))),
     CBind(Wild, NoTy, Call("mzero", <<>>)),
     CIgn(Ret1(Lit(0))),
     CIgn(Call("mzero", <<>>)),
     CRet(Call("mzero", <<>>))}

IterPool ==
    CommonPool \cup
    {CBind(Id("x"), NoTy, Rng(Lit(0), Lit(3))),
     CBind(Id("y"), "int", Rng(Var("x"), Lit(3))),
     CBind(Wild, NoTy, Rng(Lit(0), Lit(0))),
     CIgn(Rng(Lit(0), Lit(2))),
     CIgn(Rng(Lit(0), Lit(0))),
     CRet(Rng(Var("y"), Lit(3)))}

PoolPrograms ==
    {[fam |-> "option", cs |-> cs, semi |-> semi] :
        cs \in SeqsUpTo(OptionPool, MaxClauses), semi \in BOOLEAN}
    \cup
    {[fam |-> "iter", cs |-> cs, semi |-> semi] :
        cs \in SeqsUpTo(IterPool, MaxClauses), semi \in BOOLEAN}

InitMdo ==
    /\ mpc = "expanding"
    /\ prog \in TestPrograms \cup PoolPrograms
    /\ mexpr = Mdo(ProgToks(prog.cs, prog.semi))
    /\ mdepth = 0
    /\ mval = Pending
    /\ OptionOff
    /\ ResultOff
    /\ IterOff

\* mdo! is expanded by rule n, whose transcription is new
Expanded(n, new) ==
    /\ mpc = "expanding"
    /\ RuleFor(PendingToks(mexpr)) = n
    /\ mexpr' = Splice(mexpr, new)
    /\ mdepth' = mdepth + 1
    /\ mpc' = IF HasPending(new) THEN "expanding" ELSE "expanded"
    /\ UNCHANGED <<prog, mval, optVars, resVars, iterVars>>

MdoLet == Expanded(1, ExpandLet(PendingToks(mexpr)))
MdoLetTy == Expanded(2, ExpandLetTy(PendingToks(mexpr)))
MdoBind == Expanded(3, ExpandBind(PendingToks(mexpr)))
MdoBindTy == Expanded(4, ExpandBindTy(PendingToks(mexpr)))
MdoIgn == Expanded(5, ExpandIgn(PendingToks(mexpr)))
MdoWhen == Expanded(6, ExpandWhen(PendingToks(mexpr)))
MdoRet == Expanded(7, ExpandRet(PendingToks(mexpr)))

\* no rule matches: the expansion fails and there is no expression
MdoNoRule ==
    /\ mpc = "expanding"
    /\ RuleFor(PendingToks(mexpr)) = 0
    /\ mexpr' = NoExpr
    /\ mpc' = "error"
    /\ UNCHANGED <<prog, mdepth, mval, optVars, resVars, iterVars>>

\* the expanded expression is evaluated (and collected, for an iterator)
MdoRun ==
    /\ mpc = "expanded"
    /\ mval' = EvalM(mexpr, Env0, prog.fam)
    /\ mpc' = "run"
    /\ UNCHANGED <<prog, mexpr, mdepth, optVars, resVars, iterVars>>

NextMdo ==
    \/ MdoLet \/ MdoLetTy \/ MdoBind \/ MdoBindTy \/ MdoIgn \/ MdoWhen \/ MdoRet
    \/ MdoNoRule \/ MdoRun

SpecMdo == InitMdo /\ [][NextMdo]_vars

(***************************************************************************)
(* Properties.                                                             *)
(***************************************************************************)

\* C2: option::bind(m, f) returns exactly f(v) and invokes f once, with v,
\* when m is Some(v); it returns None and never invokes f when m is None;
\* f is invoked at most once per call of bind.
C2_OptionBindContract ==
    opc = "done" =>
        /\ om.tag = "Some" => ores.val = ofn[om.val] /\ ores.calls = <<om.val>>
        /\ om = None => ores.val = None /\ ores.calls = <<>>
        /\ Len(ores.calls) <= 1

\* bind has run on a Some(v) whose continuation changes the value
C2_Witness ==
    /\ opc = "done" /\ osrc = "arg" /\ om.tag = "Some"
    /\ ores.val.tag = "Some" /\ ores.val # om /\ ores.calls = <<om.val>>

\* C7: the option family satisfies left identity bind(ret(x), f) = f(x),
\* right identity bind(m, ret) = m and left zero bind(mzero(), f) = mzero().
C7_OptionMonadLaws ==
    opc = "done" =>
        /\ osrc = "ret" => ores.val = ofn[ox]
        /\ ofn = OptionRetFn => ores.val = om
        /\ osrc = "mzero" => ores.val = OptionMzero

\* bind has run on ret(x) with a continuation that is not ret
C7_Witness ==
    /\ opc = "done" /\ osrc = "ret" /\ ofn # OptionRetFn
    /\ ofn[ox].tag = "Some" /\ ofn[ox] # om /\ ores.val = ofn[ox]

\* the results met along a chain in written order: m, g1(..), g2(..), ...
\* up to and including the first Err
RECURSIVE ChainTrace(_, _)
ChainTrace(tr, gs) ==
    IF Last(tr).tag = "Err" \/ Len(tr) = Len(gs) + 1 THEN tr
    ELSE ChainTrace(Append(tr, gs[Len(tr)][Last(tr).val]), gs)

\* C3: result::bind(m, f) returns Err(e) with the same payload and never
\* invokes f when m is Err(e), and returns exactly f(v) when m is Ok(v); in
\* a chain of nested binds the first Err met in written order is the value
\* of the chain and no later continuation runs.
C3_ResultBindPropagates ==
    rpc = "done" =>
        LET tr == ChainTrace(<<rm>>, rgs)
        IN  /\ rm.tag = "Err" => rres.val = rm /\ rres.calls = <<>>
            /\ rm.tag = "Ok" /\ Len(rgs) = 1 => rres.val = rgs[1][rm.val]
            /\ rres.val = Last(tr)
            /\ Len(rres.calls) = Len(tr) - 1
            /\ \A i \in 1..Len(rres.calls) : rres.calls[i] = tr[i].val

\* a chain of two binds whose first continuation fails with payload 2: the
\* chain returns that error and the second continuation has not run
C3_Witness ==
    /\ rpc = "done" /\ Len(rgs) = 2 /\ rm.tag = "Ok"
    /\ rgs[1][rm.val] = Err(2)
    /\ rres.val = Err(2) /\ Len(rres.calls) = 1

\* f(s[1]) ++ f(s[2]) ++ ... ++ f(s[n])
RECURSIVE FlatConcat(_, _)
FlatConcat(s, f) ==
    IF s = <<>> THEN <<>> ELSE f[Head(s)] \o FlatConcat(Tail(s), f)

\* C4: iter::bind(m, f), fully consumed, yields the concatenation of the
\* sub-sequences f(m[i]) in m's order, f having received every element of m
\* in order; what has been delivered at any point is a prefix of it.
C4_IterBindFlatMap ==
    /\ IsPrefix(iout, FlatConcat(im, ifn))
    /\ ipc = "done" => iout = FlatConcat(im, ifn) /\ icalls = im

\* bind(0..3, |x| x..3) has been consumed and gave [0,1,2,1,2,2]
C4_Witness ==
    /\ ipc = "done" /\ im = <<0, 1, 2>> /\ ifn = [x \in Vals |-> Range(x, 3)]
    /\ iout = <<0, 1, 2, 1, 2, 2>>

\* what the front iterator of the FlatMap has yet to yield
FrontRest == IF ist.front.tag = "Some" THEN ist.front.val ELSE <<>>

\* the number of elements of m the FlatMap has taken from its source
Consumed == Len(im) - Len(ist.iter)

\* C8: iter::bind is lazy and single-pass: the call itself consumes nothing
\* and does not invoke f; f has been invoked exactly once on each element
\* taken from the source, in order; the elements delivered and those left in
\* the front iterator are exactly the sub-sequences of the elements taken, so
\* the next element of m is taken only when the front is exhausted; and after
\* a delivery the last element taken is the one that supplied it.
C8_IterBindLazy ==
    /\ ist.iter = SubSeq(im, Consumed + 1, Len(im))
    /\ icalls = SubSeq(im, 1, Consumed)
    /\ ipc = "iterating" /\ iout = <<>> => icalls = <<>> /\ ist.iter = im
    /\ iout \o FrontRest = FlatConcat(icalls, ifn)
    /\ ipc = "iterating" /\ iout # <<>> =>
            /\ icalls # <<>>
            /\ Len(FrontRest) < Len(ifn[Last(icalls)])

\* one element has been taken by the consumer of a bind over three elements
\* whose first sub-sequence is empty: two elements of m were touched, the
\* third was not
C8_Witness ==
    /\ ipc = "iterating" /\ Len(im) = 3 /\ Len(iout) = 1
    /\ ifn[im[1]] = <<>> /\ Len(ifn[im[2]]) = 2
    /\ icalls = SubSeq(im, 1, 2) /\ Len(ist.iter) = 1

(***************************************************************************)
(* Properties of the macro.                                                *)
(***************************************************************************)
\* the value of a written clause sequence: expanded, then evaluated in env
Meaning(cs, env, fam) == EvalM(ExpandAll(Mdo(ProgToks(cs, FALSE))), env, fam)

From(cs, i) == SubSeq(cs, i, Len(cs))

\* the environments a clause of a pool block can be reached with
PoolEnvs ==
    {[x |-> IntV(a), y |-> IntV(b), t |-> BoolV(c)] :
        a \in Vals, b \in Vals, c \in BOOLEAN}

Ints(s) == [i \in DOMAIN s |-> IntV(s[i])]

Zero(fam) == IF fam = "option" THEN None ELSE <<>>

\* the hand-written nested form of a clause sequence that ends in ret
RECURSIVE D(_)
D(cs) ==
    LET c == Head(cs)
    IN  CASE c.k = "ret" -> c.e
          [] c.k = "let" -> Block(c.p, c.ty, c.e, D(Tail(cs)))
          [] c.k = "bind" -> Call("bind", <<c.e, Closure(c.p, c.ty, D(Tail(cs)))>>)
          [] c.k = "ign" -> Call("bind", <<c.e, Closure(Wild, NoTy, D(Tail(cs)))>>)
          [] c.k = "when" ->
                Call("bind", <<If(c.e, Call("ret", <<Unit>>), Call("mzero", <<>>)),
                               Closure(Wild, NoTy, D(Tail(cs)))>>)

C5_WhenGuards ==
    mpc = "run" =>
        /\ prog = WhenTrick => mval.val = Ints(<<0, 1, 2, 4>>)
        /\ prog = OptionMdo4 => mval.val = None
        /\ prog \in PoolPrograms =>
              \A i \in 1..Len(prog.cs) : prog.cs[i].k = "when" =>
                \A env \in PoolEnvs :
                  LET whole == Meaning(From(prog.cs, i), env, prog.fam)
                      rest == Meaning(From(prog.cs, i + 1), env, prog.fam)
                  IN  IF EvalV(prog.cs[i].e, env).b
                          THEN /\ whole.val = rest.val
                               /\ whole.calls = <<UnitV>> \o rest.calls
                          ELSE /\ whole.val = Zero(prog.fam)
                               /\ whole.calls = <<>>

\* the guarded block of tests::when_trick has been evaluated
C5_Witness == mpc = "run" /\ prog = WhenTrick /\ Len(mval.val) = 4

\* s repeated k times
RECURSIVE Repeat(_, _)
Repeat(s, k) == IF k = 0 THEN <<>> ELSE s \o Repeat(s, k - 1)

\* <<a1>> \o c \o <<a2>> \o c \o ...
RECURSIVE EachThen(_, _)
EachThen(as, c) == IF as = <<>> THEN <<>> ELSE <<Head(as)>> \o c \o EachThen(Tail(as), c)

\* C6: `ign e; rest` means what `_ <- e; rest` means: the remainder is run
\* once per element of e.  In the iterator family the remainder's results
\* are repeated Len(e) times in a row (twice over 0..5 gives
\* [0,0,1,1,2,2,3,3,4,4]) and an empty e empties the block.
C6_IgnIsBindDiscard ==
    mpc = "run" =>
        /\ prog = IterIgnore => mval.val = Ints(<<0, 0, 1, 1, 2, 2, 3, 3, 4, 4>>)
        /\ prog = IgnTrick => mval.val = <<>>
        /\ prog = MdoDocExample => mval.val = Ints(<<10, 10, 12, 12, 14, 14>>)
        /\ prog \in PoolPrograms =>
              \A i \in 1..Len(prog.cs) : prog.cs[i].k = "ign" =>
                \A env \in PoolEnvs :
                  LET whole == Meaning(From(prog.cs, i), env, prog.fam)
                      rest == Meaning(From(prog.cs, i + 1), env, prog.fam)
                      asBind == Meaning(<<CBind(Wild, NoTy, prog.cs[i].e)>>
                                            \o From(prog.cs, i + 1), env, prog.fam)
                      e == EvalM(prog.cs[i].e, env, prog.fam).val
                  IN  /\ whole = asBind
                      /\ prog.fam = "iter" =>
                            /\ whole.val = Repeat(rest.val, Len(e))
                            /\ whole.calls = EachThen(e, rest.calls)
                      /\ prog.fam = "option" =>
                            IF e = None THEN whole = Pure(None)
                            ELSE whole = Ran(rest.val, <<e.val>> \o rest.calls)

\* the block of tests::iter_ignore has been evaluated
C6_Witness == mpc = "run" /\ prog = IterIgnore /\ Len(mval.val) = 10

\* the nested binds tests::iter_bind writes by hand for the triples
HandWrittenTriples ==
    Call("bind", <<Rng(Lit(1), Lit(11)), Closure(Id("z"), NoTy,
      Call("bind", <<Rng(Lit(1), Bin("+", Var("z"), Lit(1))), Closure(Id("y"), NoTy,
        Call("bind", <<Rng(Lit(1), Bin("+", Var("y"), Lit(1))), Closure(Id("x"), NoTy,
          Call("bind", <<If(IsTriple, Call("ret", <<Unit>>), Call("mzero", <<>>)),
                         Closure(Wild, NoTy, Ret1(Triple))>>))>>))>>))>>)

\* the values of rest for each element of s bound to p, in s's order
RECURSIVE ForEach(_, _, _, _, _)
ForEach(s, p, rest, env, fam) ==
    IF s = <<>> THEN <<>>
    ELSE Meaning(rest, BindPat(env, p, Head(s)), fam).val
            \o ForEach(Tail(s), p, rest, env, fam)

\* C10: in the iterator family a bind clause is a loop around the clauses
\* after it, which see the value it binds: the first clause written is the
\* outermost loop.  The block of the triples gives [(3,4,5), (6,8,10)], as
\* the nested binds written by hand in tests::iter_bind do.
C10_ClauseOrderIsNesting ==
    mpc = "run" /\ prog.fam = "iter" =>
        /\ prog = IterMdo3 =>
              /\ mval.val = <<TupleV(Ints(<<3, 4, 5>>)), TupleV(Ints(<<6, 8, 10>>))>>
              /\ mval.val = EvalM(HandWrittenTriples, Env0, "iter").val
        /\ prog = IterMdo2 => mval.val = Ints(<<0, 1, 2, 1, 2, 3, 2, 3, 4>>)
        /\ prog \in PoolPrograms =>
              \A i \in 1..Len(prog.cs) : prog.cs[i].k = "bind" =>
                \A env \in PoolEnvs :
                  Meaning(From(prog.cs, i), env, "iter").val
                    = ForEach(EvalM(prog.cs[i].e, env, "iter").val, prog.cs[i].p,
                              From(prog.cs, i + 1), env, "iter")

\* the block of the triples has been evaluated
C10_Witness == mpc = "run" /\ prog = IterMdo3 /\ Len(mval.val) = 2

\* a clause sequence of the notation: let, bind, ign and when clauses, then
\* one ret, and nothing after it
WellFormed(p) ==
    /\ Len(p.cs) >= 1
    /\ ~p.semi
    /\ p.cs[Len(p.cs)].k = "ret"
    /\ \A i \in 1..(Len(p.cs) - 1) : p.cs[i].k \in {"let", "bind", "ign", "when"}

\* C9: a malformed clause sequence (no final ret, anything after the ret, a
\* clause of no recognised shape) is rejected at expansion and leaves no
\* expression; every well-formed one is accepted, after as many expansions
\* as it has clauses.
C9_MalformedRejectedWellFormedAccepted ==
    /\ mpc \in {"expanded", "error", "run"} =>
            IF WellFormed(prog)
                THEN mpc # "error" /\ mdepth = Len(prog.cs) /\ ~HasPending(mexpr)
                ELSE mpc = "error" /\ mexpr = NoExpr
    /\ mpc = "expanding" => mdepth <= Len(prog.cs)

\* what the macro accepts: the well-formed sequences whose let clauses bind
\* a path; it rejects every other sequence
LetsBindPaths(p) == \A i \in 1..Len(p.cs) : p.cs[i].k = "let" => p.cs[i].p.k = "ident"

MdoAcceptsPathLets ==
    /\ mpc \in {"expanded", "error", "run"} =>
            IF WellFormed(prog) /\ LetsBindPaths(prog)
                THEN mpc # "error" /\ mdepth = Len(prog.cs) /\ ~HasPending(mexpr)
                ELSE mpc = "error" /\ mexpr = NoExpr
    /\ mpc = "expanding" => mdepth <= Len(prog.cs)

=============================================================================
